---- MODULE Spec2Model ----
(***************************************************************************)
(* Model of the inspection-review dashboard's client state:                *)
(*   - the playback clock of VideoProvider (currentTime, totalDuration,    *)
(*     isPlaying, playbackSpeed) with its tick timer,                      *)
(*   - the registry of embedded player iframes and the sync effect that    *)
(*     posts commands to them,                                             *)
(*   - the window "message" listeners of VideoProvider and VideoPanel,     *)
(*   - the player controls of VideoPlayer / LineGraph / the gallery,       *)
(*   - the observation wizard of ObservationModal with its descriptor      *)
(*     menu, details form and clock selector.                              *)
(*                                                                         *)
(* Time is counted in quarter seconds: every playback speed of the         *)
(* speed menu is a multiple of 0.25, so one tick at speed s/4 advances the *)
(* clock by s units; 0.5 s is 2 units and 10 s is 40 units.                *)
(***************************************************************************)
EXTENDS Integers, Sequences, FiniteSets, TLC

\* ---------------------------------------------------------------- bounds
VideoDuration == 8       \* duration the embedded player reports (2 s)
NumHandles == 2          \* iframes that can be mounted / registered
PointerSteps == 4        \* pointer positions across the timeline / graph width
MaxDrift == 3            \* largest distance of a reported time from the clock

\* ------------------------------------------------------ program constants
DriftThreshold == 2      \* 0.5 s
SkipStep == 40           \* 10 s of rewind / fast forward
DefaultSpeed == 4        \* 1x
DefaultClockPosition == 12

Handles == 1..NumHandles
OtherWindow == 0                      \* a window that is no player iframe
SpeedOptions == 1..8                  \* 0.25x .. 2x in steps of 0.25
StateCodes == {-1, 0, 1, 2, 3, 5}
Absent == -1000                       \* `undefined`
\* sample observations at about 24%, 48% and 72% of the recording
ObservationTimes ==
  {VideoDuration \div 4, VideoDuration \div 2, (3 * VideoDuration) \div 4}

Abs(x) == IF x < 0 THEN -x ELSE x
Min(a, b) == IF a < b THEN a ELSE b
Max(a, b) == IF a > b THEN a ELSE b
Range(s) == {s[i] : i \in 1..Len(s)}

VARIABLES
  currentTime,     \* VideoProvider state
  totalDuration,   \* VideoProvider state, 0 = not discovered yet
  isPlaying,       \* VideoProvider state
  playbackSpeed,   \* VideoProvider state
  videoElements,   \* videoElementsRef.current and its state copy
  lastKnownTime,   \* the lastKnownTime ref
  sent,            \* commands posted to each iframe by the last step
  lastSeek,        \* time carried by the most recent seekTo posted, or Absent
  errorEscaped,    \* the last step let an exception escape a handler
  throwing,        \* iframes whose window rejects postMessage with an exception
  effectError,     \* the last step let an exception escape the sync effect
  timers,          \* active setInterval timers, each with what it closed over
  mounted,         \* VideoProvider is mounted
  last,            \* the operation the last step performed
  isOpen,          \* HomeContent.isObservationModalOpen
  currentStage,    \* ObservationModal state
  observationData, \* ObservationModal state
  descriptors,     \* DescriptorMenu state (empty while not mounted)
  remark,          \* DetailsMenu state ('' while the form is not mounted)
  clockPosition,   \* DetailsMenu state (12 while the form is not mounted)
  clockIsDragging, \* ClockSelector.isDragging (false while not mounted)
  emitted,         \* records the wizard's last handler passed to onSubmit
  isDragging,      \* VideoPlayer state
  dragListeners,   \* mousemove/mouseup handler pairs registered on document
  effectRenderCurrent, \* no render of VideoPlayer since its drag effect ran
  playerMounted    \* VideoPlayer is mounted

clockVars == <<currentTime, totalDuration, isPlaying, playbackSpeed>>
syncVars ==
  <<videoElements, lastKnownTime, sent, lastSeek, errorEscaped, throwing,
    effectError>>
wizardVars ==
  <<isOpen, currentStage, observationData, descriptors, remark,
    clockPosition, clockIsDragging, emitted>>
timerVars == <<timers, mounted>>
dragVars == <<isDragging, dragListeners, effectRenderCurrent, playerMounted>>
vars == <<clockVars, syncVars, timerVars, last, wizardVars, dragVars>>

\* ------------------------------------------------------------ sync effect
NoSent == [h \in Handles |-> <<>>]
PlayCmd(playing) ==
  [func |-> IF playing THEN "playVideo" ELSE "pauseVideo", arg |-> 0]
SeekCmd(t) == [func |-> "seekTo", arg |-> t]
RateCmd(s) == [func |-> "setPlaybackRate", arg |-> s]

\* slip: the threshold itself already counts as drift
SeekDueAtThreshold(ct, lkt) == Abs(ct - lkt) >= DriftThreshold

\* |currentTime - lastKnownTime.current| > 0.5
SeekDue(ct, lkt) == Abs(ct - lkt) > DriftThreshold

\* slip: the body of the callback has no try/catch
OnThrowUncaught(h) == "escapes"

\* try { ... } catch (error) { console.error(...) } around the body
OnThrow(h) == "caught"

\* videoElements.forEach(iframe => ...): play/pause, seek when due, speed.
\* For an iframe in `throwing` the first postMessage throws: nothing is
\* posted to it and lastKnownTime is not touched.
RECURSIVE SyncEffect(_, _, _, _, _, _)
SyncEffect(elems, ct, playing, speed, lkt, out) ==
  IF elems = <<>> THEN [sent |-> out, lkt |-> lkt, escaped |-> FALSE]
  ELSE LET h == Head(elems)
           seek == SeekDue(ct, lkt)
           cmds == <<PlayCmd(playing)>>
                   \o (IF seek THEN <<SeekCmd(ct)>> ELSE <<>>)
                   \o <<RateCmd(speed)>>
       IN IF h \in throwing
            THEN IF OnThrow(h) = "caught"
                   THEN SyncEffect(Tail(elems), ct, playing, speed, lkt, out)
                   ELSE [sent |-> out, lkt |-> lkt, escaped |-> TRUE]
            ELSE SyncEffect(Tail(elems), ct, playing, speed,
                            IF seek THEN ct ELSE lkt,
                            [out EXCEPT ![h] = @ \o cmds])

Seeks(cmds) == SelectSeq(cmds, LAMBDA c : c.func = "seekTo")
SeekPosted(out) == \E h \in Handles : Seeks(out[h]) # <<>>

\* ---- auto-play effect, dependencies [isPlaying, totalDuration,
\* playbackSpeed]: its cleanup clears the interval its last run created,
\* then it creates one when isPlaying.
\* slip: the effect returns no cleanup
CleanupLeaks(ts, wasPlaying) == ts

\* if (interval) clearInterval(interval)
Cleanup(ts, wasPlaying) ==
  IF wasPlaying /\ ts # <<>> THEN SubSeq(ts, 1, Len(ts) - 1) ELSE ts

\* if (isPlaying) interval = setInterval(...): the callback closes over
\* totalDuration and playbackSpeed of this render
StartInterval(ts, playing, dur, speed) ==
  IF playing THEN Append(ts, [dur |-> dur, speed |-> speed]) ELSE ts

AutoPlayEffect(ts, playing, dur, speed) ==
  IF playing # isPlaying \/ dur # totalDuration \/ speed # playbackSpeed
    THEN StartInterval(Cleanup(ts, isPlaying), playing, dur, speed)
    ELSE ts

\* A handler's state updates are committed in one render; the sync effect
\* runs after it when one of its dependencies changed (newArray: the
\* videoElements state received a fresh array).
\* VideoPlayer reads the context value and is rendered again, with new
\* handler functions, whenever the provider's state changes.
Rerenders(ct, dur, playing, speed, newArray) ==
  \/ ct # currentTime
  \/ dur # totalDuration
  \/ playing # isPlaying
  \/ speed # playbackSpeed
  \/ newArray

Commit(ct, dur, playing, speed, elems, newArray) ==
  LET changed == \/ ct # currentTime
                 \/ playing # isPlaying
                 \/ speed # playbackSpeed
                 \/ newArray
      r == IF changed
             THEN SyncEffect(elems, ct, playing, speed, lastKnownTime, NoSent)
             ELSE [sent |-> NoSent, lkt |-> lastKnownTime, escaped |-> FALSE]
  IN /\ mounted
     /\ throwing' = throwing
     /\ effectError' = r.escaped
     /\ mounted' = mounted
     /\ timers' = AutoPlayEffect(timers, playing, dur, speed)
     /\ currentTime' = ct
     /\ totalDuration' = dur
     /\ isPlaying' = playing
     /\ playbackSpeed' = speed
     /\ videoElements' = elems
     /\ sent' = r.sent
     /\ lastKnownTime' = r.lkt
     /\ lastSeek' = IF SeekPosted(r.sent) THEN ct ELSE lastSeek
     /\ effectRenderCurrent' = (effectRenderCurrent /\ ~Rerenders(ct, dur, playing, speed, newArray))
     /\ UNCHANGED <<isDragging, dragListeners, playerMounted>>

Op(name, arg) == [op |-> name, arg |-> arg]

\* setCurrentTime(time) from a control
SeekTo(t, name, arg) ==
  /\ Commit(t, totalDuration, isPlaying, playbackSpeed, videoElements, FALSE)
  /\ last' = Op(name, arg)
  /\ errorEscaped' = FALSE
  /\ UNCHANGED wizardVars

\* ----------------------------------------------------------- player controls
\* percentage * totalDuration at a pointer p/PointerSteps of the width
PointerTime(p) == (p * totalDuration) \div PointerSteps

\* The click reaches the timeline from its children too; the time indicator
\* is centred on its position and so reaches past both ends of the bar.
PointerPositions == -1..(PointerSteps + 1)

TimelineClick(p) ==
  /\ playerMounted
  /\ ~isDragging
  /\ SeekTo(PointerTime(p), "timelineClick", 0)

GraphClick(p) ==
  SeekTo(Max(0, Min(totalDuration, PointerTime(p))), "graphClick", 0)

Rewind ==
  /\ playerMounted
  /\ SeekTo(Max(0, currentTime - SkipStep), "rewind", 0)

FastForward ==
  /\ playerMounted
  /\ SeekTo(Min(totalDuration, currentTime + SkipStep), "fastForward", 0)

ObservationClick(t) == SeekTo(t, "observationClick", 0)

PlayPause ==
  /\ playerMounted
  /\ Commit(currentTime, totalDuration, ~isPlaying, playbackSpeed,
            videoElements, FALSE)
  /\ last' = Op("playPause", 0)
  /\ errorEscaped' = FALSE
  /\ UNCHANGED wizardVars

SpeedChange(s) ==
  /\ playerMounted
  /\ Commit(currentTime, totalDuration, isPlaying, s, videoElements, FALSE)
  /\ last' = Op("speedChange", 0)
  /\ errorEscaped' = FALSE
  /\ UNCHANGED wizardVars

\* ---------------------------------------------------------- timeline drag
\* handleMouseMove and handleMouseUp are created anew by every render of
\* VideoPlayer.  A registered pair is the pair of one render: it carries the
\* isDragging and totalDuration that render saw, and whether that render is
\* the one whose [isDragging] effect ran last (the effect's cleanup removes
\* the functions of that render and no others).
Listener(dragging, dur, ofEffect) ==
  [isDragging |-> dragging, totalDuration |-> dur, effectRender |-> ofEffect]

\* addEventListener ignores a function that is registered already
AddEventListener(ls, l) ==
  IF \E i \in 1..Len(ls) : ls[i] = l THEN ls ELSE Append(ls, l)

\* cleanup of the [isDragging] effect
DragCleanup(ls) == SelectSeq(ls, LAMBDA l : ~l.effectRender)

\* the effect ran again: the pairs still registered are of older renders
EffectRuns(ls) == [i \in 1..Len(ls) |-> [ls[i] EXCEPT !.effectRender = FALSE]]

\* Math.max(0, Math.min(1, clickX / rect.width)) * totalDuration
DragTime(p, dur) == (Max(0, Min(PointerSteps, p)) * dur) \div PointerSteps

\* mousedown on the timeline
HandleMouseDown ==
  /\ mounted
  /\ playerMounted
  /\ LET added == AddEventListener(dragListeners,
                    Listener(isDragging, totalDuration, effectRenderCurrent))
     IN IF isDragging
          THEN /\ dragListeners' = added
               /\ effectRenderCurrent' = effectRenderCurrent
          ELSE /\ dragListeners' = EffectRuns(DragCleanup(added))
               /\ effectRenderCurrent' = TRUE
  /\ isDragging' = TRUE
  /\ sent' = NoSent
  /\ errorEscaped' = FALSE
  /\ effectError' = FALSE
  /\ last' = Op("mouseDown", 0)
  /\ UNCHANGED <<clockVars, videoElements, lastKnownTime, lastSeek, throwing,
                 timerVars, wizardVars, playerMounted>>

\* mousemove on the document: every registered handleMouseMove runs with the
\* values of its own render; timelineRef.current is null after the unmount.
HandleMouseMove(p) ==
  LET seeking == SelectSeq(dragListeners,
                           LAMBDA l : l.isDragging /\ playerMounted)
      t == IF seeking = <<>>
             THEN currentTime
             ELSE DragTime(p, seeking[Len(seeking)].totalDuration)
  IN /\ dragListeners # <<>>
     /\ SeekTo(t, "mouseMove", Max(0, Min(PointerSteps, p)))

\* mouseup on the document: every registered handleMouseUp runs and removes
\* the pair of its own render.
HandleMouseUp ==
  /\ mounted
  /\ dragListeners # <<>>
  /\ dragListeners' = <<>>
  /\ isDragging' = FALSE
  /\ effectRenderCurrent' = (effectRenderCurrent \/ (playerMounted /\ isDragging))
  /\ sent' = NoSent
  /\ errorEscaped' = FALSE
  /\ effectError' = FALSE
  /\ last' = Op("mouseUp", 0)
  /\ UNCHANGED <<clockVars, videoElements, lastKnownTime, lastSeek, throwing,
                 timerVars, wizardVars, playerMounted>>

\* VideoPlayer is unmounted: the effect's cleanup runs, its state is dropped.
PlayerUnmount ==
  /\ mounted
  /\ playerMounted
  /\ playerMounted' = FALSE
  /\ dragListeners' = DragCleanup(dragListeners)
  /\ isDragging' = FALSE
  /\ effectRenderCurrent' = FALSE
  /\ sent' = NoSent
  /\ errorEscaped' = FALSE
  /\ effectError' = FALSE
  /\ last' = Op("playerUnmount", 0)
  /\ UNCHANGED <<clockVars, videoElements, lastKnownTime, lastSeek, throwing,
                 timerVars, wizardVars>>

\* ------------------------------------------------------------------- tick
TickTime(prev, dur, speed) == IF prev >= dur THEN prev ELSE prev + speed
TickPlaying(prev, dur) == ~(prev >= dur)

\* The callback of an active interval runs: setCurrentTime(prev => ...)
\* with the totalDuration and playbackSpeed it closed over.
\* slip: at the end of the recording the tick starts over and plays on
TimerFiresLoops(timer) ==
  /\ Commit(IF currentTime >= timer.dur THEN 0 ELSE currentTime + timer.speed,
            totalDuration, isPlaying, playbackSpeed, videoElements, FALSE)
  /\ last' = Op("tick", 0)
  /\ errorEscaped' = FALSE
  /\ UNCHANGED wizardVars

TimerFires(timer) ==
  /\ Commit(TickTime(currentTime, timer.dur, timer.speed), totalDuration,
            isPlaying /\ TickPlaying(currentTime, timer.dur), playbackSpeed,
            videoElements, FALSE)
  /\ last' = Op("tick", 0)
  /\ errorEscaped' = FALSE
  /\ UNCHANGED wizardVars

Tick == \E i \in 1..Len(timers) : TimerFires(timers[i])

\* VideoProvider is unmounted: the effects' cleanups run and its state is
\* dropped with it.
Unmount ==
  /\ mounted
  /\ mounted' = FALSE
  /\ timers' = Cleanup(timers, isPlaying)
  /\ currentTime' = 0
  /\ totalDuration' = 0
  /\ isPlaying' = FALSE
  /\ playbackSpeed' = DefaultSpeed
  /\ videoElements' = <<>>
  /\ lastKnownTime' = 0
  /\ sent' = NoSent
  /\ lastSeek' = Absent
  /\ errorEscaped' = FALSE
  /\ throwing' = {}
  /\ effectError' = FALSE
  /\ last' = Op("unmount", 0)
  /\ UNCHANGED <<wizardVars, dragVars>>

\* --------------------------------------------------------------- registry
Includes(elems, h) == h \in Range(elems)
\* slip: the includes() test is missing
RegisterResultNoCheck(elems, h) == Append(elems, h)

RegisterResult(elems, h) ==
  IF ~Includes(elems, h) THEN Append(elems, h) ELSE elems
UnregisterResult(elems, h) == SelectSeq(elems, LAMBDA e : e # h)

\* registerVideoElement(iframe): VideoPanel's mount effect and iframe onLoad
RegisterVideoElement(h) ==
  /\ Commit(currentTime, totalDuration, isPlaying, playbackSpeed,
            RegisterResult(videoElements, h), ~Includes(videoElements, h))
  /\ last' = Op(IF Includes(videoElements, h) THEN "registerAgain"
                ELSE "register", 0)
  /\ errorEscaped' = FALSE
  /\ UNCHANGED wizardVars

\* unregisterVideoElement(iframe): VideoPanel's cleanup; the state always
\* receives a fresh array
UnregisterVideoElement(h) ==
  /\ Commit(currentTime, totalDuration, isPlaying, playbackSpeed,
            UnregisterResult(videoElements, h), TRUE)
  /\ last' = Op(IF Includes(videoElements, h) THEN "unregister"
                ELSE "unregisterUnknown", 0)
  /\ errorEscaped' = FALSE
  /\ UNCHANGED wizardVars

\* The window of iframe h starts / stops rejecting postMessage.
HandleFails(h, fails) ==
  /\ mounted
  /\ (h \in throwing) # fails
  /\ throwing' = IF fails THEN throwing \cup {h} ELSE throwing \ {h}
  /\ sent' = NoSent
  /\ errorEscaped' = FALSE
  /\ effectError' = FALSE
  /\ last' = Op(IF fails THEN "handleBreaks" ELSE "handleRecovers", 0)
  /\ UNCHANGED <<clockVars, videoElements, lastKnownTime, lastSeek, timerVars,
                 wizardVars, dragVars>>

\* --------------------------------------------------------- inbound messages
\* A payload is event.data: a structured value posted as it is ("raw"), its
\* JSON text ("json"), a string starting with '!_' ("sentinel") or a string
\* that is no JSON ("garbage").  Values: null, a number, a string, and objects
\* {event:'infoDelivery', info:{currentTime: a, duration: b}},
\* {event:'onStateChange', info: a}, {type:'duration', value: a}, {}.
Value(t, a, b) == [t |-> t, a |-> a, b |-> b]
NullValue == Value("null", Absent, Absent)
StringValue == Value("string", Absent, Absent)

\* a player reports a time close to the clock's, on either side of the
\* threshold, within what a recording can hold
ReportedTimes ==
  {currentTime + d : d \in {-MaxDrift, 0, DriftThreshold, MaxDrift}}
  \cap 0..(VideoDuration + MaxDrift)

Values ==
  {NullValue, Value("number", Absent, Absent), Value("object", Absent, Absent)}
  \cup {Value("infoDelivery", a, b) :
          a \in ReportedTimes \cup {Absent}, b \in {VideoDuration, Absent}}
  \cup {Value("onStateChange", c, Absent) : c \in StateCodes}
  \cup {Value("duration", VideoDuration, Absent)}

Payloads ==
  {[enc |-> e, v |-> v] : e \in {"raw", "json"}, v \in Values}
  \cup {[enc |-> e, v |-> StringValue] : e \in {"sentinel", "garbage"}}

\* duration messages of panels that show recordings of different lengths
PanelDurations == {VideoDuration, VideoDuration \div 2}
DurationPayloads ==
  {[enc |-> "raw", v |-> Value("duration", d, Absent)] : d \in PanelDurations}

\* typeof event.data === 'string' ? (JSON.parse or, when it throws, the
\* string itself) : event.data
ParseData(p) == IF p.enc \in {"raw", "json"} THEN p.v ELSE StringValue

\* !data || typeof data !== 'object'
IsObject(v) == v.t \notin {"null", "number", "string"}

\* VideoProvider.handleMessage gets past its guards
Accepted(src, p) ==
  /\ Includes(videoElements, src)
  /\ p.enc # "sentinel"
  /\ IsObject(ParseData(p))

\* slip: every reported time that differs is adopted
InfoTimeAnyChange(v, ct) ==
  IF v.t = "infoDelivery" /\ v.a # Absent /\ v.a # ct THEN v.a ELSE ct

InfoTime(v, ct) ==
  IF v.t = "infoDelivery" /\ v.a # Absent /\ Abs(v.a - ct) > DriftThreshold
    THEN v.a ELSE ct

InfoDuration(v, dur) ==
  IF v.t = "infoDelivery" /\ v.b # Absent /\ dur = 0 THEN v.b ELSE dur

\* slip: buffering (3) is taken as paused
StatePlayingBufferingPauses(v, playing) ==
  IF v.t = "onStateChange"
    THEN IF v.a = 1 /\ ~playing THEN TRUE
         ELSE IF v.a \in {2, 3} /\ playing THEN FALSE
         ELSE playing
    ELSE playing

StatePlaying(v, playing) ==
  IF v.t = "onStateChange"
    THEN IF v.a = 1 /\ ~playing THEN TRUE
         ELSE IF v.a = 2 /\ playing THEN FALSE
         ELSE playing
    ELSE playing

\* VideoPanel.handleMessage of the panel owning iframe src: reads
\* event.data.type without a guard, adopts a 'duration' message.
PanelListens(src) == Includes(videoElements, src)
PanelThrows(src, p) == PanelListens(src) /\ p.enc = "raw" /\ p.v.t = "null"
PanelDuration(src, p, dur) ==
  IF PanelListens(src) /\ p.enc = "raw" /\ p.v.t = "duration" THEN p.v.a ELSE dur

MessageLabel(src, p) ==
  IF ~Accepted(src, p) THEN Op("msgDropped", 0)
  ELSE LET v == ParseData(p) IN
    IF v.t = "infoDelivery"
      THEN IF v.a = Absent THEN Op("msgInfoNoTime", 0)
           ELSE IF Abs(v.a - currentTime) > DriftThreshold THEN Op("msgInfoFar", 0)
           ELSE Op("msgInfoNear", 0)
    ELSE IF v.t = "onStateChange" THEN Op("msgState", v.a)
    ELSE Op("msgOther", 0)

\* One message event: every installed listener sees it.
Message(src, p) ==
  LET ok == Accepted(src, p)
      v == ParseData(p)
  IN /\ Commit(IF ok THEN InfoTime(v, currentTime) ELSE currentTime,
               PanelDuration(src, p,
                  IF ok THEN InfoDuration(v, totalDuration) ELSE totalDuration),
               IF ok THEN StatePlaying(v, isPlaying) ELSE isPlaying,
               playbackSpeed, videoElements, FALSE)
     /\ last' = MessageLabel(src, p)
     /\ errorEscaped' = PanelThrows(src, p)
     /\ UNCHANGED wizardVars

\* ------------------------------------------------------------------ wizard
EmptyData ==
  [family |-> "", group |-> "", descriptor |-> "", code |-> "",
   remark |-> "", clockPosition |-> DefaultClockPosition]

StageIndex(stage) ==
  CASE stage = "family" -> 1 [] stage = "group" -> 2
    [] stage = "descriptor" -> 3 [] stage = "details" -> 4

\* Option lists of the three menus (the embedded tables).
Families ==
  {"Structural", "Operational & Maintenance", "Construction Features", "Other"}

Groups(family) ==
  CASE family = "Structural" ->
         {"Crack (C)", "Fracture (F)", "Pipe Failures (Silent)", "Collapse (X)",
          "Deformed (D)", "Joint (J)", "Surface Damage Chemical (S)",
          "Surface Damage Mechanical (M)", "Surface Damage Not Evident (Z)"}
    [] family = "Operational & Maintenance" ->
         {"Deposits Attached (DA)", "Deposits Settled (DS)",
          "Deposits Ingress (DN)", "Roots (R)", "Infiltration (I)",
          "Obstacles/Obstructions (OB)", "Vermin (V)"}
    [] family = "Construction Features" ->
         {"Tap (T)", "Intruding Seal Material (IS)", "Line (L)",
          "Access Point (A)"}
    [] family = "Other" -> {"Miscellaneous (M)"}
    [] OTHER -> {}

Option(name, code) == [name |-> name, code |-> code]

\* slip: a pair without an entry gets the first entry of the table
DescriptorsFirstEntry(family, group) ==
  CASE family = "Structural" /\ group = "Fracture (F)" ->
         <<Option("Circumferential (C)", "FC"), Option("Longitudinal (L)", "FL"),
           Option("Multiple (M)", "FM"), Option("Spiral (S)", "FS")>>
    [] family = "Operational & Maintenance" /\ group = "Deposits Attached (DA)" ->
         <<Option("Encrustation (E)", "DAE"), Option("Grease (G)", "DAGS"),
           Option("Ragging (R)", "DAR"), Option("Other (Z)", "DAZ")>>
    [] OTHER ->
         <<Option("Circumferential (C)", "CC"), Option("Longitudinal (L)", "CL"),
           Option("Multiple (M)", "CM"), Option("Spiral (S)", "CS")>>

\* fallbackDescriptors[family]?.[group] || []
Descriptors(family, group) ==
  CASE family = "Structural" /\ group = "Crack (C)" ->
         <<Option("Circumferential (C)", "CC"), Option("Longitudinal (L)", "CL"),
           Option("Multiple (M)", "CM"), Option("Spiral (S)", "CS")>>
    [] family = "Structural" /\ group = "Fracture (F)" ->
         <<Option("Circumferential (C)", "FC"), Option("Longitudinal (L)", "FL"),
           Option("Multiple (M)", "FM"), Option("Spiral (S)", "FS")>>
    [] family = "Operational & Maintenance" /\ group = "Deposits Attached (DA)" ->
         <<Option("Encrustation (E)", "DAE"), Option("Grease (G)", "DAGS"),
           Option("Ragging (R)", "DAR"), Option("Other (Z)", "DAZ")>>
    [] OTHER -> <<>>

\* A handler of the modal that hands nothing to onSubmit.  The details form
\* is mounted at stage 'details' of the open modal only, and every handler
\* that leads there mounts it anew: useState('') and useState(12).
\* DescriptorMenu is mounted at stage 'descriptor' of the open modal; its
\* effect fetches the taxonomy, and with the fetch failing its catch handler
\* fills the list from the embedded table.
MountedDescriptors(stage, data, open) ==
  IF open /\ stage = "descriptor" THEN Descriptors(data.family, data.group)
  ELSE <<>>

\* slip: the details form is kept mounted across the stages
WizardStepKeepsForm(stage, data, open, label) ==
  /\ currentStage' = stage
  /\ observationData' = data
  /\ isOpen' = open
  /\ descriptors' = MountedDescriptors(stage, data, open)
  /\ remark' = remark
  /\ clockPosition' = clockPosition
  /\ clockIsDragging' = FALSE
  /\ emitted' = <<>>
  /\ last' = label
  /\ UNCHANGED <<clockVars, syncVars, timerVars, dragVars>>

WizardStep(stage, data, open, label) ==
  /\ currentStage' = stage
  /\ observationData' = data
  /\ isOpen' = open
  /\ descriptors' = MountedDescriptors(stage, data, open)
  /\ remark' = ""
  /\ clockPosition' = DefaultClockPosition
  /\ clockIsDragging' = FALSE
  /\ emitted' = <<>>
  /\ last' = label
  /\ UNCHANGED <<clockVars, syncVars, timerVars, dragVars>>

\* slip: the effect leaves the draft of the last session
OpenDataKept(data) == data

\* the reset-on-open effect: setObservationData({... all empty ...})
OpenData(data) == EmptyData

\* handleAddObservation, then the reset-on-open effect.  Label: the stage
\* the modal was left at, plus 10 when it was closed by a submit.
AddObservation ==
  /\ ~isOpen
  /\ WizardStep("family", OpenData(observationData), TRUE,
                Op("open", StageIndex(currentStage)
                           + (IF emitted # <<>> THEN 10 ELSE 0)))

\* onClose from the header button or the details form's Cancel
CloseModal ==
  /\ isOpen
  /\ WizardStep(currentStage, observationData, FALSE,
                Op("close", StageIndex(currentStage)))

HandleFamilySelect(family) ==
  /\ isOpen /\ currentStage = "family"
  /\ WizardStep("group", [observationData EXCEPT !.family = family], TRUE,
                Op("selectFamily", 0))

HandleGroupSelect(group) ==
  /\ isOpen /\ currentStage = "group"
  /\ WizardStep("descriptor", [observationData EXCEPT !.group = group], TRUE,
                Op("selectGroup", 0))

HandleDescriptorSelect(option) ==
  /\ isOpen /\ currentStage = "descriptor"
  /\ WizardStep("details",
                [observationData EXCEPT !.descriptor = option.name,
                                        !.code = option.code],
                TRUE, Op("selectDescriptor", 0))

\* slip: the record is built from the draft alone
FinalDataDraftOnly(data, finalRemark, finalClockPosition) == data

\* finalData = {...observationData, remark, clockPosition}
FinalData(data, finalRemark, finalClockPosition) ==
  [data EXCEPT !.remark = finalRemark, !.clockPosition = finalClockPosition]

\* onSubmit(finalData) hands the record to the page, which logs it;
\* onClose() closes the modal.  Stage and draft stay as they are.
HandleDetailsSubmit(finalRemark, finalClockPosition) ==
  /\ isOpen /\ currentStage = "details"
  /\ currentStage' = currentStage
  /\ observationData' = observationData
  /\ descriptors' = <<>>
  /\ isOpen' = FALSE
  /\ remark' = ""
  /\ clockPosition' = DefaultClockPosition
  /\ clockIsDragging' = FALSE
  /\ emitted' = <<FinalData(observationData, finalRemark, finalClockPosition)>>
  /\ last' = Op("submit", 0)
  /\ UNCHANGED <<clockVars, syncVars, timerVars, dragVars>>

\* DetailsMenu: the remark input's onChange
SetRemark(text) ==
  /\ isOpen /\ currentStage = "details"
  /\ remark' = text
  /\ emitted' = <<>>
  /\ last' = Op("setRemark", 0)
  /\ UNCHANGED <<isOpen, currentStage, observationData, descriptors,
                 clockPosition, clockIsDragging, clockVars, syncVars, timerVars, dragVars>>

\* ---- ClockSelector.  The pointer is given by the direction from the
\* centre of the face, Math.atan2(deltaX, -deltaY) in whole degrees:
\* 0 is straight up, 90 to the right, 180 (also the centre itself) down.
PointerAngles == -179..180

\* Math.round(x / 30) of a non-negative x: halves round up
RoundToHour(angle) == (angle + 15) \div 30

\* slip: the hour is returned as rounded
HourAsRounded(hour) == hour

\* hour === 0 ? 12 : hour
HourOnFace(hour) == IF hour = 0 THEN 12 ELSE hour

\* if (angle < 0) angle += 360
NormalAngle(atan) == IF atan < 0 THEN atan + 360 ELSE atan

GetHourFromPosition(atan) == HourOnFace(RoundToHour(NormalAngle(atan)))

ClockStep(hour, dragging, label) ==
  /\ isOpen /\ currentStage = "details"
  /\ clockPosition' = hour
  /\ clockIsDragging' = dragging
  /\ emitted' = <<>>
  /\ last' = label
  /\ UNCHANGED <<isOpen, currentStage, observationData, descriptors, remark,
                 clockVars, syncVars, timerVars, dragVars>>

\* handleMouseDown: setIsDragging(true); onHourChange(hour).  Label: the
\* hour as rounded.
ClockMouseDown(atan) ==
  ClockStep(GetHourFromPosition(atan), TRUE,
            Op("clockDown", RoundToHour(NormalAngle(atan))))

\* handleMouseMove: onHourChange(hour) while dragging, else only the hover
ClockMouseMove(atan) ==
  ClockStep(IF clockIsDragging THEN GetHourFromPosition(atan)
            ELSE clockPosition,
            clockIsDragging, Op("clockMove", 0))

\* handleMouseUp / handleMouseLeave
ClockMouseUp == ClockStep(clockPosition, FALSE, Op("clockUp", 0))

\* slip: the Cancel button is wired like the Submit button
CancelRecordsAsSubmit(data, text, hour) == <<FinalData(data, text, hour)>>

\* onCancel={onClose}: nothing reaches onSubmit
CancelRecords(data, text, hour) == <<>>

\* DetailsMenu's Cancel button
DetailsCancel ==
  /\ isOpen /\ currentStage = "details"
  /\ currentStage' = currentStage
  /\ observationData' = observationData
  /\ descriptors' = <<>>
  /\ isOpen' = FALSE
  /\ remark' = ""
  /\ clockPosition' = DefaultClockPosition
  /\ clockIsDragging' = FALSE
  /\ emitted' = CancelRecords(observationData, remark, clockPosition)
  /\ last' = Op("cancel", StageIndex(currentStage))
  /\ UNCHANGED <<clockVars, syncVars, timerVars, dragVars>>

\* DetailsMenu.handleSubmit: onSubmit(remark, clockPosition)
HandleSubmit == HandleDetailsSubmit(remark, clockPosition)

BackStage(stage) ==
  CASE stage = "group" -> "family"
    [] stage = "descriptor" -> "group"
    [] stage = "details" -> "descriptor"
    [] OTHER -> stage

\* slip: going back from the group menu keeps the group
BackDataKeepsGroup(stage, data) ==
  CASE stage = "group" -> [data EXCEPT !.descriptor = "", !.code = ""]
    [] stage = "descriptor" -> [data EXCEPT !.descriptor = "", !.code = ""]
    [] stage = "details" ->
         [data EXCEPT !.remark = "", !.clockPosition = DefaultClockPosition]
    [] OTHER -> data

\* slip: going back from the descriptor menu clears the family as well
BackDataClearsFamily(stage, data) ==
  CASE stage = "group" ->
         [data EXCEPT !.group = "", !.descriptor = "", !.code = ""]
    [] stage = "descriptor" ->
         [data EXCEPT !.family = "", !.descriptor = "", !.code = ""]
    [] stage = "details" ->
         [data EXCEPT !.remark = "", !.clockPosition = DefaultClockPosition]
    [] OTHER -> data

BackData(stage, data) ==
  CASE stage = "group" ->
         [data EXCEPT !.group = "", !.descriptor = "", !.code = ""]
    [] stage = "descriptor" -> [data EXCEPT !.descriptor = "", !.code = ""]
    [] stage = "details" ->
         [data EXCEPT !.remark = "", !.clockPosition = DefaultClockPosition]
    [] OTHER -> data

\* the back button is rendered at every stage but the first
HandleBack ==
  /\ isOpen /\ currentStage # "family"
  /\ WizardStep(BackStage(currentStage),
                BackData(currentStage, observationData), TRUE,
                Op("back", StageIndex(currentStage)))

\* slip: the family breadcrumb clears the family only
BreadcrumbDataFamilyOnly(stage, data) ==
  CASE stage = "family" -> [data EXCEPT !.family = ""]
    [] stage = "group" -> [data EXCEPT !.descriptor = "", !.code = ""]
    [] stage = "descriptor" ->
         [data EXCEPT !.remark = "", !.clockPosition = DefaultClockPosition]
    [] OTHER -> data

\* slip: the group breadcrumb leaves the code of the old descriptor
BreadcrumbDataKeepsCode(stage, data) ==
  CASE stage = "family" ->
         [data EXCEPT !.family = "", !.group = "", !.descriptor = "", !.code = ""]
    [] stage = "group" -> [data EXCEPT !.descriptor = ""]
    [] stage = "descriptor" ->
         [data EXCEPT !.remark = "", !.clockPosition = DefaultClockPosition]
    [] OTHER -> data

\* slip: the group breadcrumb clears nothing
BreadcrumbDataGroupKeepsAll(stage, data) ==
  CASE stage = "family" ->
         [data EXCEPT !.family = "", !.group = "", !.descriptor = "", !.code = ""]
    [] stage = "group" -> data
    [] stage = "descriptor" ->
         [data EXCEPT !.remark = "", !.clockPosition = DefaultClockPosition]
    [] OTHER -> data

BreadcrumbData(stage, data) ==
  CASE stage = "family" ->
         [data EXCEPT !.family = "", !.group = "", !.descriptor = "", !.code = ""]
    [] stage = "group" -> [data EXCEPT !.descriptor = "", !.code = ""]
    [] stage = "descriptor" ->
         [data EXCEPT !.remark = "", !.clockPosition = DefaultClockPosition]
    [] OTHER -> data

\* slip: the three breadcrumbs are rendered whatever the draft holds
BreadcrumbShownAlways(stage, data) ==
  stage \in {"family", "group", "descriptor"}

\* a breadcrumb is rendered for each of family, group, descriptor that is set
BreadcrumbShown(stage, data) ==
  CASE stage = "family" -> data.family # ""
    [] stage = "group" -> data.group # ""
    [] stage = "descriptor" -> data.descriptor # ""
    [] OTHER -> FALSE

\* label: the stage clicked and the stage it was clicked at
HandleBreadcrumbClick(stage) ==
  /\ isOpen /\ BreadcrumbShown(stage, observationData)
  /\ WizardStep(stage, BreadcrumbData(stage, observationData), TRUE,
                Op("breadcrumb", 10 * StageIndex(currentStage) + StageIndex(stage)))

Remarks == {"", "note"}
ClockPositions == 1..12

WizardNext ==
  \/ AddObservation
  \/ CloseModal
  \/ \E f \in Families : HandleFamilySelect(f)
  \/ \E g \in Groups(observationData.family) : HandleGroupSelect(g)
  \/ \E i \in 1..Len(descriptors) : HandleDescriptorSelect(descriptors[i])
  \/ \E text \in Remarks : SetRemark(text)
  \/ \E atan \in PointerAngles : ClockMouseDown(atan)
  \/ \E atan \in PointerAngles : ClockMouseMove(atan)
  \/ ClockMouseUp
  \/ HandleSubmit
  \/ DetailsCancel
  \/ HandleBack
  \/ \E st \in {"family", "group", "descriptor"} : HandleBreadcrumbClick(st)

\* ----------------------------------------------------------- specification
Init ==
  /\ currentTime = 0
  /\ totalDuration = 0
  /\ isPlaying = FALSE
  /\ playbackSpeed = DefaultSpeed
  /\ videoElements = <<>>
  /\ lastKnownTime = 0
  /\ sent = NoSent
  /\ lastSeek = Absent
  /\ errorEscaped = FALSE
  /\ throwing = {}
  /\ effectError = FALSE
  /\ timers = <<>>
  /\ mounted = TRUE
  /\ last = Op("init", 0)
  /\ isOpen = FALSE
  /\ currentStage = "family"
  /\ observationData = EmptyData
  /\ descriptors = <<>>
  /\ remark = ""
  /\ clockPosition = DefaultClockPosition
  /\ clockIsDragging = FALSE
  /\ emitted = <<>>
  /\ isDragging = FALSE
  /\ dragListeners = <<>>
  /\ effectRenderCurrent = TRUE
  /\ playerMounted = TRUE

Sources == Handles \cup {OtherWindow}

\* One step of the page: a control, a tick, a panel's (un)registration or
\* a message event, over every input.  SyncNext, InboundNext, DurationNext
\* and IsolationNext below are the same actions over fewer inputs, each for
\* one part of the page.
Next ==
  \/ \E p \in PointerPositions : TimelineClick(p)
  \/ \E p \in PointerPositions : GraphClick(p)
  \/ Rewind
  \/ FastForward
  \/ \E t \in ObservationTimes : ObservationClick(t)
  \/ PlayPause
  \/ \E s \in SpeedOptions : SpeedChange(s)
  \/ Tick
  \/ \E h \in Handles : RegisterVideoElement(h)
  \/ \E h \in Handles : UnregisterVideoElement(h)
  \/ \E src \in Sources, p \in Payloads \cup DurationPayloads : Message(src, p)
  \/ Unmount
  \/ \E h \in Handles, fails \in BOOLEAN : HandleFails(h, fails)

Spec == Init /\ [][Next]_vars

\* The controls and the broadcaster: the slowest, the default and the
\* fastest speed; players that report their progress and the duration.
SpeedsTried == {1, DefaultSpeed, 8}
ProgressPayloads ==
  {[enc |-> "json", v |-> Value("infoDelivery", a, VideoDuration)] :
     a \in ReportedTimes}

SyncNext ==
  \/ \E p \in PointerPositions : TimelineClick(p)
  \/ \E p \in PointerPositions : GraphClick(p)
  \/ Rewind
  \/ FastForward
  \/ \E t \in ObservationTimes : ObservationClick(t)
  \/ PlayPause
  \/ \E s \in SpeedsTried : SpeedChange(s)
  \/ Tick
  \/ \E h \in Handles : RegisterVideoElement(h)
  \/ \E h \in Handles : UnregisterVideoElement(h)
  \/ \E src \in Handles, p \in ProgressPayloads : Message(src, p)
  \/ Unmount

SyncSpec == Init /\ [][SyncNext]_vars

\* The inbound listeners: every payload from every source, while the user
\* plays, pauses and clicks either end of the timeline.
InboundNext ==
  \/ \E p \in {0, PointerSteps} : TimelineClick(p)
  \/ PlayPause
  \/ Tick
  \/ \E h \in Handles : RegisterVideoElement(h)
  \/ \E h \in Handles : UnregisterVideoElement(h)
  \/ \E src \in Sources, p \in Payloads : Message(src, p)

InboundSpec == Init /\ [][InboundNext]_vars

\* The duration: players that report their progress and their duration to
\* VideoProvider and to their panel.
DurationNext ==
  \/ \E p \in {0, PointerSteps} : TimelineClick(p)
  \/ PlayPause
  \/ Tick
  \/ \E h \in Handles : RegisterVideoElement(h)
  \/ \E h \in Handles : UnregisterVideoElement(h)
  \/ \E src \in Handles, p \in ProgressPayloads \cup DurationPayloads :
       Message(src, p)

DurationSpec == Init /\ [][DurationNext]_vars

\* The broadcaster with iframes that reject its messages.
IsolationNext ==
  \/ \E t \in ObservationTimes : ObservationClick(t)
  \/ PlayPause
  \/ \E s \in SpeedsTried : SpeedChange(s)
  \/ \E h \in Handles : RegisterVideoElement(h)
  \/ \E h \in Handles : UnregisterVideoElement(h)
  \/ \E h \in Handles, fails \in BOOLEAN : HandleFails(h, fails)

IsolationSpec == Init /\ [][IsolationNext]_vars

WizardSpec == Init /\ [][WizardNext]_vars

\* The loop of broadcaster and listener: controls, ticks, (un)registrations
\* and the players' progress and state messages; an interval that is set
\* keeps firing.
StatePayloads ==
  {[enc |-> "raw", v |-> Value("onStateChange", c, Absent)] : c \in {1, 2}}

FeedbackNext ==
  \/ ObservationClick(VideoDuration \div 2)
  \/ PlayPause
  \/ \E s \in {DefaultSpeed, 8} : SpeedChange(s)
  \/ Tick
  \/ \E h \in Handles : RegisterVideoElement(h)
  \/ \E h \in Handles : UnregisterVideoElement(h)
  \/ \E p \in ProgressPayloads \cup StatePayloads : Message(1, p)

FeedbackSpec == Init /\ [][FeedbackNext]_vars /\ WF_vars(Tick)

\* Dragging on the timeline of one panel's recording.
DragNext ==
  \/ HandleMouseDown
  \/ \E p \in PointerPositions : HandleMouseMove(p)
  \/ HandleMouseUp
  \/ PlayerUnmount
  \/ \E p \in {0, PointerSteps} : TimelineClick(p)
  \/ PlayPause
  \/ RegisterVideoElement(1)
  \/ \E p \in DurationPayloads : Message(1, p)

DragSpec == Init /\ [][DragNext]_vars

\* ================================================================ properties
SeekOps ==
  {"timelineClick", "graphClick", "rewind", "fastForward", "observationClick"}
InRange(t, dur) == 0 <= t /\ t <= dur
Count(h, elems) == Cardinality({i \in 1..Len(elems) : elems[i] = h})
NoDuplicates(elems) == \A h \in Handles : Count(h, elems) <= 1
OnlyPlayAndRate(cmds) ==
  \A i \in 1..Len(cmds) :
    cmds[i].func \in {"playVideo", "pauseVideo", "setPlaybackRate"}

\* C1: after a seek issued through a player control, once the duration is
\* known, 0 <= currentTime <= totalDuration.
C1_SeekClamped ==
  (last.op \in SeekOps /\ totalDuration > 0)
    => InRange(currentTime, totalDuration)

\* C2: a tick taken within the timeline never overshoots totalDuration, and
\* a tick that would exceed it leaves the clock at totalDuration, paused.
C2_AutoStop ==
  [][(last'.op = "tick" /\ totalDuration > 0
        /\ InRange(currentTime, totalDuration))
       => /\ currentTime' <= totalDuration
          /\ (currentTime + playbackSpeed > totalDuration
                => currentTime' = totalDuration /\ ~isPlaying')]_vars

\* C3: a step that leaves the clock within 0.5 s of the time of the last
\* seek broadcast posts no seekTo to any handle, only play/pause and
\* playback-rate commands.
C3_DriftSuppression ==
  [][(lastSeek # Absent /\ Abs(currentTime' - lastSeek) <= DriftThreshold)
       => \A h \in Handles : OnlyPlayAndRate(sent'[h])]_vars

C3_Witness ==
  /\ lastSeek # Absent
  /\ currentTime # lastSeek
  /\ Abs(currentTime - lastSeek) <= DriftThreshold
  /\ \E h \in Handles : sent[h] # <<>> /\ OnlyPlayAndRate(sent[h])

\* C4: when the clock moves more than 0.5 s away from the last time
\* broadcast, every registered handle receives exactly one seekTo carrying
\* the new time in that round.
C4_SeekToEveryHandle ==
  [][(currentTime' # currentTime
        /\ Abs(currentTime' - lastKnownTime) > DriftThreshold)
       => \A h \in Range(videoElements') :
            Seeks(sent'[h]) = <<SeekCmd(currentTime')>>]_vars

\* C5 (as claimed): a progress message from a registered handle reporting a
\* time within 0.5 s of the clock's mutates nothing of the clock.
C5_NearProgressNoMutation ==
  [][last'.op = "msgInfoNear" => UNCHANGED clockVars]_vars

\* C5 (amended): such a message leaves currentTime, isPlaying and
\* playbackSpeed unchanged and posts no command; totalDuration changes only
\* from unknown (0) to the duration the message supplies.
C5_NearProgressKeepsTime ==
  [][last'.op = "msgInfoNear"
       => /\ UNCHANGED <<currentTime, isPlaying, playbackSpeed>>
          /\ sent' = NoSent
          /\ (totalDuration' # totalDuration => totalDuration = 0)]_vars

C5_Witness ==
  last.op = "msgInfoNear" /\ currentTime > 0 /\ totalDuration > 0

\* C6: after an onStateChange message with code 0 (ended) from a registered
\* handle, isPlaying is false and the clock rests at the end of the timeline.
C6_EndedPauses ==
  (last.op = "msgState" /\ last.arg = 0)
    => /\ ~isPlaying
       /\ (totalDuration > 0 => currentTime = totalDuration)

\* C7: a message from an unregistered source, a '!_' string or a payload
\* that is no object is discarded: clock and registry unchanged, and no
\* error escapes a message handler.
C7_DiscardedSilently ==
  [][last'.op = "msgDropped"
       => /\ UNCHANGED <<clockVars, videoElements>>
          /\ ~errorEscaped']_vars

\* C8: the registry never holds a handle twice; registering a registered
\* handle leaves exactly its one entry and the registry as it was;
\* unregistering a handle that is not registered changes nothing and throws
\* nothing.
C8_RegistryIdempotent ==
  [][/\ NoDuplicates(videoElements')
     /\ \A h \in Handles :
          RegisterVideoElement(h)
            => /\ Count(h, videoElements') = 1
               /\ (Includes(videoElements, h) => videoElements' = videoElements)
     /\ \A h \in Handles :
          (UnregisterVideoElement(h) /\ ~Includes(videoElements, h))
            => videoElements' = videoElements /\ ~errorEscaped']_vars

C8_Witness ==
  last.op = "registerAgain" /\ Len(videoElements) = NumHandles

\* C9: at stage Details with family, group, descriptor and code set, a
\* click on the Family breadcrumb gives stage Family and the empty draft
\* (remark '' and clockPosition 12 included).
C9_FamilyBreadcrumbResets ==
  [][(last'.op = "breadcrumb" /\ last'.arg = 41
        /\ observationData.family # "" /\ observationData.group # ""
        /\ observationData.descriptor # "" /\ observationData.code # "")
       => currentStage' = "family" /\ observationData' = EmptyData]_vars

C9_Witness ==
  last = Op("breadcrumb", 41) /\ isOpen /\ currentStage = "family"

ClearedAfter(stage, data) ==
  /\ data.remark = "" /\ data.clockPosition = DefaultClockPosition
  /\ (stage \in {"family", "group"} => data.descriptor = "" /\ data.code = "")
  /\ (stage = "family" => data.group = "")

KeptBefore(stage, old, new) ==
  /\ (stage \in {"group", "descriptor"} => new.family = old.family)
  /\ (stage = "descriptor" => new.group = old.group)

\* C10: a breadcrumb click on an earlier stage E moves straight to E and
\* clears every field acquired after E, keeping the fields acquired before.
C10_BreadcrumbJumps ==
  [][\A st \in {"family", "group", "descriptor"} :
       (HandleBreadcrumbClick(st) /\ StageIndex(st) < StageIndex(currentStage))
         => /\ currentStage' = st
            /\ ClearedAfter(st, observationData')
            /\ KeptBefore(st, observationData, observationData')]_vars

C10_Witness ==
  /\ last = Op("breadcrumb", 42)
  /\ currentStage = "group"
  /\ observationData.group # "" /\ observationData.descriptor = ""
  /\ observationData.code = ""

\* C11: the submit of the details form hands exactly one record to onSubmit,
\* made of the draft's family, group, descriptor and code and of the form's
\* remark and clock position, and closes the modal; every other step hands
\* over nothing.
C11_SubmitEmitsOnce ==
  [][IF last'.op = "submit"
       THEN /\ currentStage = "details"
            /\ emitted' = <<[family |-> observationData.family,
                             group |-> observationData.group,
                             descriptor |-> observationData.descriptor,
                             code |-> observationData.code,
                             remark |-> remark,
                             clockPosition |-> clockPosition]>>
            /\ ~isOpen'
       ELSE emitted' = <<>>]_vars

C11_Witness ==
  /\ last.op = "submit" /\ ~isOpen /\ Len(emitted) = 1
  /\ emitted[1].code = "CL" /\ emitted[1].remark = "note"
  /\ emitted[1].clockPosition = 3

\* C12: the submit step itself leaves the wizard at stage Family with an
\* empty draft.
C12_SubmitResets ==
  [][last'.op = "submit"
       => currentStage' = "family" /\ observationData' = EmptyData]_vars

C14_ReopenResets ==
  [][last'.op = "open"
       => /\ isOpen' /\ currentStage' = "family"
          /\ observationData' =
               [family |-> "", group |-> "", descriptor |-> "", code |-> "",
                remark |-> "", clockPosition |-> 12]
          /\ remark' = "" /\ clockPosition' = 12]_vars

C14_Witness ==
  /\ last = Op("open", 14)
  /\ currentStage = "family" /\ observationData.family = ""

\* codes of the embedded descriptor table, pair by pair
TableCodes(family, group) ==
  CASE family = "Structural" /\ group = "Crack (C)" -> <<"CC", "CL", "CM", "CS">>
    [] family = "Structural" /\ group = "Fracture (F)" -> <<"FC", "FL", "FM", "FS">>
    [] family = "Operational & Maintenance" /\ group = "Deposits Attached (DA)" ->
         <<"DAE", "DAGS", "DAR", "DAZ">>
    [] OTHER -> <<>>

\* C15: with the taxonomy fetch failing, the descriptor menu of Structural /
\* Crack (C) lists Circumferential (C)/CC, Longitudinal (L)/CL, Multiple
\* (M)/CM, Spiral (S)/CS in this order, the two other pairs of the embedded
\* table list their entries, and every other family/group pair gives the
\* empty list with the wizard still open at the descriptor stage.
C15_FallbackDescriptors ==
  (isOpen /\ currentStage = "descriptor")
    => /\ (observationData.family = "Structural"
            /\ observationData.group = "Crack (C)")
          => descriptors =
               <<[name |-> "Circumferential (C)", code |-> "CC"],
                 [name |-> "Longitudinal (L)", code |-> "CL"],
                 [name |-> "Multiple (M)", code |-> "CM"],
                 [name |-> "Spiral (S)", code |-> "CS"]>>
       /\ [i \in 1..Len(descriptors) |-> descriptors[i].code]
            = TableCodes(observationData.family, observationData.group)

C15_Witness ==
  /\ isOpen /\ currentStage = "descriptor" /\ last.op = "selectGroup"
  /\ observationData.family = "Construction Features"
  /\ observationData.group = "Tap (T)"
  /\ descriptors = <<>>

\* C16: at most one tick interval is active; none is active while isPlaying
\* is false or once VideoProvider is unmounted; a speed change while playing
\* leaves exactly one interval, running at the new speed; no tick advances
\* currentTime while paused.
C16_NoLeakedTimers ==
  [][/\ Len(timers') <= 1
     /\ (~isPlaying' \/ ~mounted') => timers' = <<>>
     /\ (last'.op = "speedChange" /\ isPlaying')
          => Len(timers') = 1 /\ timers'[1].speed = playbackSpeed'
     /\ (last'.op = "tick" /\ currentTime' # currentTime) => isPlaying]_vars

C16_Witness ==
  /\ last.op = "speedChange" /\ isPlaying /\ playbackSpeed = 8
  /\ timers = <<[dur |-> VideoDuration, speed |-> 8]>>

\* C17: while the duration is unknown (totalDuration = 0) nothing is clamped:
\* an observation click, a timeline click and a graph click set currentTime
\* to the time requested, and a fast forward from t gives t + 10 s.
C17_NoClampWhileUnknown ==
  [][totalDuration = 0
       => /\ \A t \in ObservationTimes : ObservationClick(t) => currentTime' = t
          /\ \A p \in PointerPositions :
               TimelineClick(p) => currentTime' = PointerTime(p)
          /\ \A p \in PointerPositions :
               GraphClick(p) => currentTime' = PointerTime(p)
          /\ FastForward => currentTime' = currentTime + SkipStep]_vars

MessageOps ==
  {"msgDropped", "msgInfoNoTime", "msgInfoFar", "msgInfoNear", "msgState",
   "msgOther"}

\* C18: once totalDuration is known (non-zero) no inbound message changes
\* it, neither a progress message carrying a duration nor a duration
\* message handled by a video panel.
C18_DurationAdoptedOnce ==
  [][(last'.op \in MessageOps /\ totalDuration # 0)
       => totalDuration' = totalDuration]_vars

Working(elems) == SelectSeq(elems, LAMBDA h : h \notin throwing)
PlayThenRate(cmds, playing, speed) ==
  /\ Len(cmds) >= 2
  /\ cmds[1] = PlayCmd(playing)
  /\ cmds[Len(cmds)] = RateCmd(speed)

\* C19: when the clock or the registry changes, an iframe whose window
\* throws gets nothing and stops nothing: every other registered iframe
\* receives its play/pause and playback-rate command, and exactly the
\* commands (the seek included) it would receive were the throwing iframes
\* not registered; no exception leaves the sync effect.
C19_FailureIsolation ==
  [][<<currentTime, isPlaying, playbackSpeed, videoElements>>'
        # <<currentTime, isPlaying, playbackSpeed, videoElements>>
       => /\ ~effectError' /\ ~errorEscaped'
          /\ \A h \in Range(videoElements') :
               IF h \in throwing
                 THEN sent'[h] = <<>>
                 ELSE /\ PlayThenRate(sent'[h], isPlaying', playbackSpeed')
                      /\ sent'[h] =
                           SyncEffect(Working(videoElements'), currentTime',
                                      isPlaying', playbackSpeed', lastKnownTime,
                                      NoSent).sent[h]]_vars

C19_Witness ==
  /\ last.op = "observationClick"
  /\ videoElements = <<1, 2>> /\ throwing = {1}
  /\ sent[1] = <<>>
  /\ sent[2] = <<PlayCmd(isPlaying), SeekCmd(currentTime), RateCmd(playbackSpeed)>>

\* C20: every hour the clock selector reports, the form's clock position and
\* the clockPosition of every record handed to onSubmit are integers in
\* 1..12, for every direction of the pointer; straight up (angle 0) is 12.
C20_ClockPositionInRange ==
  /\ clockPosition \in 1..12
  /\ \A i \in 1..Len(emitted) : emitted[i].clockPosition \in 1..12
  /\ (last.op = "clockDown" /\ last.arg = 0) => clockPosition = 12

C20_Witness ==
  /\ last = Op("clockDown", 0) /\ clockIsDragging /\ clockPosition = 12

\* C21: a message step taken from a state that respects the range (or in
\* which the duration is unknown) leaves 0 <= currentTime <= totalDuration
\* whenever the duration is known afterwards: a reported time outside the
\* range is clamped, and so is the clock when a duration is adopted.
C21_InboundKeepsRange ==
  [][(/\ last'.op \in MessageOps
      /\ totalDuration' > 0
      /\ (totalDuration > 0 => InRange(currentTime, totalDuration)))
       => InRange(currentTime', totalDuration')]_vars

\* C22: the back button moves to the stage just before the current one;
\* from Details it resets remark and clock position, from Descriptor it
\* clears descriptor and code, from Group it clears group, descriptor and
\* code; the fields of earlier stages are kept; there is no back step at
\* stage Family.
C22_BackClears ==
  [][last'.op = "back"
       => /\ currentStage # "family"
          /\ StageIndex(currentStage') = StageIndex(currentStage) - 1
          /\ observationData'.remark = ""
          /\ observationData'.clockPosition = 12
          /\ remark' = "" /\ clockPosition' = 12
          /\ observationData'.family = observationData.family
          /\ currentStage = "details"
               => /\ observationData'.group = observationData.group
                  /\ observationData'.descriptor = observationData.descriptor
                  /\ observationData'.code = observationData.code
          /\ currentStage = "descriptor"
               => /\ observationData'.group = observationData.group
                  /\ observationData'.descriptor = ""
                  /\ observationData'.code = ""
          /\ currentStage = "group"
               => /\ observationData'.group = ""
                  /\ observationData'.descriptor = ""
                  /\ observationData'.code = ""]_vars

C22_Witness ==
  /\ last = Op("back", 2) /\ isOpen /\ currentStage = "family"
  /\ observationData.family = "Structural" /\ observationData.group = ""

\* C23: an onStateChange message from a registered iframe never changes
\* currentTime, playbackSpeed or totalDuration; code 1 leaves the clock
\* playing and code 2 leaves it paused, codes -1, 3 and 5 leave isPlaying as
\* it was; when isPlaying is already as reported nothing is set and no
\* command is posted.
C23_StateChangeMapsPlaying ==
  [][last'.op = "msgState"
       => /\ UNCHANGED <<currentTime, playbackSpeed, totalDuration>>
          /\ last'.arg = 1 => isPlaying'
          /\ last'.arg = 2 => ~isPlaying'
          /\ last'.arg \in {-1, 3, 5} => isPlaying' = isPlaying
          /\ isPlaying' = isPlaying => sent' = NoSent]_vars

C23_Witness ==
  /\ last = Op("msgState", 2) /\ ~isPlaying
  /\ \E h \in Handles : sent[h] # <<>> /\ sent[h][1] = PlayCmd(FALSE)


\* C24: while a timeline drag is in progress every mouse move seeks the
\* clock to the pointer's position along the timeline, clamped to
\* [0, totalDuration]; after the mouse-up or the unmount no document
\* listener installed by the drag is registered.
C24_DragSeeksAndCleans ==
  [][/\ (last'.op = "mouseMove" /\ isDragging)
          => currentTime' = Max(0, Min(totalDuration, PointerTime(last'.arg)))
     /\ last'.op \in {"mouseUp", "playerUnmount"} => dragListeners' = <<>>]_vars

\* C25: in every state of the open wizard, stage Group has the family set,
\* stage Descriptor has family and group set, and stage Details has family,
\* group and descriptor set, whatever selections, back actions and
\* breadcrumb clicks led there.
C25_StageGating ==
  isOpen =>
    /\ currentStage = "group" => observationData.family # ""
    /\ currentStage = "descriptor"
         => observationData.family # "" /\ observationData.group # ""
    /\ currentStage = "details"
         => /\ observationData.family # ""
            /\ observationData.group # ""
            /\ observationData.descriptor # ""

C25_Witness ==
  /\ isOpen
  /\ last.op = "back"
  /\ currentStage = "group"
  /\ observationData.family # ""
  /\ observationData.descriptor = ""

\* the draft with the fields of the given stage and of later stages emptied
OnlyPrior(stage, data) ==
  CASE stage = "family" -> EmptyData
    [] stage = "group" ->
         [data EXCEPT !.group = "", !.descriptor = "", !.code = ""]
    [] stage = "descriptor" -> [data EXCEPT !.descriptor = "", !.code = ""]
    [] OTHER -> data

\* the draft with the fields of the stages after the given one emptied
NoLater(stage, data) ==
  CASE stage = "family" ->
         [data EXCEPT !.group = "", !.descriptor = "", !.code = ""]
    [] stage = "group" -> [data EXCEPT !.descriptor = "", !.code = ""]
    [] OTHER -> data

\* C26 as stated: in every state of the open wizard the draft holds only
\* fields of stages before the current one (at Family family, group,
\* descriptor and code are empty, at Group group, descriptor and code, at
\* Descriptor descriptor and code), and a back step and a breadcrumb click
\* that arrive at the same stage leave the same draft.
C26_OnlyPriorFields ==
  /\ [](isOpen => observationData = OnlyPrior(currentStage, observationData))
  /\ [][last'.op \in {"back", "breadcrumb"}
          => observationData' = OnlyPrior(currentStage', observationData)]_vars

\* C26, amended: in every state of the open wizard the draft holds no field
\* of a stage after the current one (at Family group, descriptor and code
\* are empty, at Group descriptor and code); the field of the current stage
\* itself survives a back step or a breadcrumb click that arrives there, so
\* at Descriptor the descriptor and its code may be set.  A back step and a
\* breadcrumb click that arrive at the same stage leave the same draft,
\* except at Family, where back keeps the family and the breadcrumb clears it.
C26_NoLaterFields ==
  /\ [](isOpen => observationData = NoLater(currentStage, observationData))
  /\ [][/\ last'.op = "back"
             => observationData' = NoLater(currentStage', observationData)
        /\ last'.op = "breadcrumb"
             => observationData' =
                  IF currentStage' = "family"
                    THEN EmptyData
                    ELSE NoLater(currentStage', observationData)]_vars

C26_Witness ==
  /\ isOpen
  /\ last.op = "back"
  /\ currentStage = "descriptor"
  /\ observationData.descriptor # ""
  /\ observationData.code # ""

\* C27: the draft's own remark is '' and its clock position 12 in every
\* state; the details form starts from remark '' and clock position 12
\* whenever stage Details is entered, and the record handed over at submit
\* carries the remark and the clock position the form held.
C27_FormOwnsDetails ==
  /\ [](/\ observationData.remark = ""
        /\ observationData.clockPosition = 12)
  /\ [][/\ (currentStage' = "details" /\ (currentStage # "details" \/ ~isOpen))
             => remark' = "" /\ clockPosition' = 12
        /\ last'.op = "submit"
             => /\ emitted'[1].remark = remark
                /\ emitted'[1].clockPosition = clockPosition]_vars

C27_Witness ==
  /\ last.op = "submit"
  /\ Len(emitted) = 1
  /\ emitted[1].remark = "note"
  /\ emitted[1].clockPosition = 7
  /\ observationData.remark = ""
  /\ observationData.clockPosition = 12

\* C28: a breadcrumb is rendered only for the current stage or an earlier
\* one, so a breadcrumb click never moves the wizard to a later stage; the
\* open wizard moves to a later stage only by selecting a family, a group
\* or a descriptor.
C28_BreadcrumbNeverForward ==
  /\ [](isOpen =>
          \A stage \in {"family", "group", "descriptor"} :
            BreadcrumbShown(stage, observationData)
              => StageIndex(stage) <= StageIndex(currentStage))
  /\ [][/\ last'.op = "breadcrumb"
             => StageIndex(currentStage') <= StageIndex(currentStage)
        /\ (isOpen /\ StageIndex(currentStage') > StageIndex(currentStage))
             => last'.op \in {"selectFamily", "selectGroup", "selectDescriptor"}]_vars

C28_Witness ==
  /\ isOpen
  /\ last = Op("breadcrumb", 10 * StageIndex("details") + StageIndex("group"))
  /\ currentStage = "group"
  /\ observationData.group # ""

\* C29: a handle that registers while the clock is more than 0.5 s away
\* from 0 is sent seekTo(currentTime) by the broadcast round its
\* registration triggers, whatever seeks the handles registered before it
\* were sent.
C29_LateHandleIsSought ==
  [][\A h \in Handles :
       (/\ last'.op = "register"
        /\ ~Includes(videoElements, h)
        /\ Includes(videoElements', h)
        /\ h \notin throwing
        /\ Abs(currentTime - 0) > DriftThreshold)
         => Seeks(sent'[h]) = <<SeekCmd(currentTime')>>]_vars

Plays(cmds) == SelectSeq(cmds, LAMBDA c : c.func \in {"playVideo", "pauseVideo"})
Rates(cmds) == SelectSeq(cmds, LAMBDA c : c.func = "setPlaybackRate")

\* the step posted one broadcast round: one play/pause command and one
\* rate command to every registered handle, at most one seek
OneRound ==
  \A h \in Range(videoElements') :
    /\ Len(Plays(sent'[h])) = 1
    /\ Len(Rates(sent'[h])) = 1
    /\ Len(Seeks(sent'[h])) <= 1

\* no step posts more than one round
AtMostOneRound ==
  \A h \in Handles :
    /\ Len(Plays(sent'[h])) <= 1
    /\ Len(Rates(sent'[h])) <= 1
    /\ Len(Seeks(sent'[h])) <= 1

\* once the user and the players are silent, the steps come to an end
Quiesces == (<>[][Tick]_vars) => <>[][FALSE]_vars

====
